---- MODULE Spec2Model ----
(***************************************************************************)
(* The save/collection relationship model of the application: the tables   *)
(* user, post, collection and save (models.py), the request handlers       *)
(* register, upload, save_post, unsave_post and get_post (routes.py), and  *)
(* the functions of the storage backends (cloudinary_storage.py,           *)
(* filesystem_storage.py, supabase_client.py).                             *)
(*                                                                         *)
(* A request is a process served by a worker.  A handler is cut into       *)
(* steps at its database round trips: a step ends with a commit, or with   *)
(* the last query before a write, so that requests of different workers    *)
(* interleave between a handler's existence check and its insert.          *)
(* Queries that find a post or a collection are taken together with the    *)
(* query that follows them, because these rows are never updated or        *)
(* deleted.  Session writes become visible at commit, so add + commit is   *)
(* one step.  A row that a query found is deleted by its primary key.      *)
(* A handler step is an operator from the committed database and the       *)
(* request's locals to the new database and locals; the actions apply      *)
(* these operators, and Run composes them into a handler executed with no  *)
(* other request in between.                                               *)
(*                                                                         *)
(* Spec serves requests by concurrent workers, SeqSpec one at a time;      *)
(* StorageSpec calls the storage functions, which touch no table.          *)
(***************************************************************************)
EXTENDS Integers, Sequences, FiniteSets, TLC

(* ------------------------------ bounds -------------------------------- *)
MaxPosts == 1
MaxSaveId == 2
Req == {1, 2}
Usernames == {"alice", "bob"}
Emails == {"a@x", "b@x"}
UploadNames == { <<"a", ".", "J", "P", "G">>, <<"a", ".", "e", "x", "e">>, <<>> }
UploadResults == {"image", "fail"}
(* Filenames: every string of at most MaxNameLen of the characters         *)
(* NameChars, and the names NamedFiles.                                    *)
MaxNameLen == 5
NameChars == {"p", "n", "g", "G", "."}
NamedFiles ==
  { <<"a", ".", "J", "P", "G">>, <<"a", ".", "j", "p", "g">>, <<"a", ".", "e", "x", "e">>,
    <<"a", ".", "j", "p", "e", "g">>, <<"a", ".", "g", "i", "f">>, <<"a", ".", "G", "i", "F">>,
    <<"a", ".", "m", "p", "4">>, <<"a", ".", "m", "o", "v">>, <<"a", ".", "M", "O", "V">>,
    <<"a", ".", "w", "e", "b", "m">>, <<"c", "a", "t", ".", "j", "p", "g">>,
    <<"a", ".", "t", "a", "r", ".", "g", "z">>, <<"a", ".", "m", "o", "v", ".", "e", "x", "e">>,
    <<"a", ".", "e", "x", "e", ".", "p", "n", "g">>, <<"m", "o", "v">>, <<"j", "p", "g">>,
    <<"R", "E", "A", "D", "M", "E">>, <<"a", ".", "j", "p", "g", ".">>, <<"a", ".", "j", "p">> }

(* ------------------------- program constants -------------------------- *)
MinPasswordLen == 8
ALLOWED_EXTENSIONS ==
  { <<"j", "p", "g">>, <<"j", "p", "e", "g">>, <<"p", "n", "g">>, <<"g", "i", "f">>,
    <<"m", "p", "4">>, <<"m", "o", "v">>, <<"w", "e", "b", "m">> }

filesystem_ALLOWED_EXTENSIONS ==
  { <<"j", "p", "g">>, <<"j", "p", "e", "g">>, <<"p", "n", "g">>, <<"g", "i", "f">>,
    <<"m", "p", "4">>, <<"m", "o", "v">>, <<"w", "e", "b", "m">> }

VARIABLES users, posts, collections, saves, is_configured, req, last, call

vars == <<users, posts, collections, saves, is_configured, req, last, call>>

(* The committed database as one value. *)
DB ==
  [users |-> users, posts |-> posts, collections |-> collections, saves |-> saves]

(* --------------------------- table helpers ---------------------------- *)
SetMax(S) == CHOOSE x \in S : \A y \in S : y <= x
SetMin(S) == CHOOSE x \in S : \A y \in S : x <= y

(* The integer primary key the database gives a new row.  The default     *)
(* database is SQLite (app.py), where an Integer primary key is the rowid: *)
(* one more than the largest key in the table, so the key of a deleted     *)
(* last row is given again.                                                *)
NextId(rows) == IF rows = {} THEN 1 ELSE SetMax({row.id : row \in rows}) + 1

Ids(rows) == {row.id : row \in rows}

(* Model.query.get(id): the row, or the none record with id 0. *)
NoRow == [id |-> 0, user_id |-> 0]
GetRow(rows, id) == IF id \in Ids(rows) THEN CHOOSE row \in rows : row.id = id ELSE NoRow

(* ------------------------- request locals ----------------------------- *)
Blank ==
  [kind |-> "none", pc |-> "idle", user |-> 0, post_id |-> 0, arg |-> 0,
   collection_id |-> 0, username |-> "", email |-> "", saves |-> {},
   resp |-> "none"]

Step(d, q) == [db |-> d, req |-> q]
Goto(q, label) == [q EXCEPT !.pc = label]
Respond(q, code) == [q EXCEPT !.pc = "done", !.resp = code]

(* ------------------------------ storage ------------------------------- *)
(* str.lower, on the letters A to Z *)
UpperLetters ==
  <<"A", "B", "C", "D", "E", "F", "G", "H", "I", "J", "K", "L", "M",
    "N", "O", "P", "Q", "R", "S", "T", "U", "V", "W", "X", "Y", "Z">>
LowerLetters ==
  <<"a", "b", "c", "d", "e", "f", "g", "h", "i", "j", "k", "l", "m",
    "n", "o", "p", "q", "r", "s", "t", "u", "v", "w", "x", "y", "z">>

Lower(c) ==
  IF \E i \in 1..Len(UpperLetters) : UpperLetters[i] = c
    THEN LowerLetters[CHOOSE i \in 1..Len(UpperLetters) : UpperLetters[i] = c]
    ELSE c

LowerStr(s) == [i \in 1..Len(s) |-> Lower(s[i])]

HasDot(s) == \E i \in 1..Len(s) : s[i] = "."

(* filename.rsplit('.', 1)[1], for a filename that contains a '.' *)
AfterLastDot(s) ==
  LET k == SetMax({i \in 1..Len(s) : s[i] = "."}) IN SubSeq(s, k + 1, Len(s))

(* Mutant: the extension is compared as it is written. *)
is_allowed_file_case_sensitive(filename) ==
  HasDot(filename) /\ AfterLastDot(filename) \in ALLOWED_EXTENSIONS

is_allowed_file(filename) ==
  HasDot(filename) /\ LowerStr(AfterLastDot(filename)) \in ALLOWED_EXTENSIONS

(* filesystem_storage.allowed_file, with the module's own set *)
allowed_file(filename) ==
  HasDot(filename) /\ LowerStr(AfterLastDot(filename)) \in filesystem_ALLOWED_EXTENSIONS

(* filename.rsplit('.', 1): the list of the parts, one part when the name  *)
(* has no '.'.                                                             *)
rsplit_dot(s) ==
  IF HasDot(s)
    THEN LET k == SetMax({i \in 1..Len(s) : s[i] = "."}) IN
         <<SubSeq(s, 1, k - 1), SubSeq(s, k + 1, Len(s))>>
    ELSE <<s>>

(* get_file_type: parts[1] of a list of one part raises IndexError; the    *)
(* value is "image", "video" or "None", or the exception raised.           *)
get_file_type(filename) ==
  LET parts == rsplit_dot(filename) IN
  IF Len(parts) < 2 THEN "IndexError"
  ELSE LET extension == LowerStr(parts[2]) IN
       IF extension \in {<<"j", "p", "g">>, <<"j", "p", "e", "g">>, <<"p", "n", "g">>,
                         <<"g", "i", "f">>} THEN "image"
       ELSE IF extension \in {<<"m", "p", "4">>, <<"m", "o", "v">>, <<"w", "e", "b", "m">>}
         THEN "video"
       ELSE "None"

(* filesystem_storage.get_file_type *)
filesystem_get_file_type(filename) ==
  LET parts == rsplit_dot(filename) IN
  IF Len(parts) < 2 THEN "IndexError"
  ELSE LET extension == LowerStr(parts[2]) IN
       IF extension \in {<<"j", "p", "g">>, <<"j", "p", "e", "g">>, <<"p", "n", "g">>,
                         <<"g", "i", "f">>} THEN "image"
       ELSE IF extension \in {<<"m", "p", "4">>, <<"m", "o", "v">>, <<"w", "e", "b", "m">>}
         THEN "video"
       ELSE "None"

(* ----------------------- a call of a storage function ----------------- *)
(* call: the function called, its filename argument, where the call is,    *)
(* the value it returned, and for SupabaseClient.upload_file the outcome   *)
(* of each transport attempt and the number of attempts made.              *)
NoCall ==
  [fn |-> "none", pc |-> "idle", filename |-> <<>>, value |-> "none",
   client |-> "none", fallback |-> "none", attempts |-> 0]

Returned(c, v) == [c EXCEPT !.pc = "returned", !.value = v]

(* A function of a filename returns its value, or raises. *)
Called(fn, filename, v) ==
  [NoCall EXCEPT !.fn = fn, !.filename = filename,
                 !.pc = IF v = "IndexError" THEN "raised" ELSE "returned", !.value = v]

BoolStr(b) == IF b THEN "True" ELSE "False"

(* ---------------------- SupabaseClient.upload_file -------------------- *)
ClientOutcomes == {"ok", "raise"}
DirectApiOutcomes == {"200", "other", "raise"}

(* Up to the first transport attempt.  supabase: the client was created    *)
(* (both credentials set).  sized: len(file_data) is defined; if not, the  *)
(* TypeError is caught by the outer handler.                               *)
SupabaseClient_upload_file(supabase, sized) ==
  LET c == [NoCall EXCEPT !.fn = "upload_file"] IN
  IF ~supabase THEN Returned(c, "None")
  ELSE IF ~sized THEN Returned(c, "None")
  ELSE [c EXCEPT !.pc = "python_client"]

(* storage.from_(bucket).upload and get_public_url, in the inner try *)
upload_file_python_client(c, outcome) ==
  LET d == [c EXCEPT !.attempts = @ + 1, !.client = outcome] IN
  IF outcome = "ok" THEN Returned(d, "url") ELSE [d EXCEPT !.pc = "direct_api"]

(* Mutant: a status other than 200 is tried again, twice at most. *)
upload_file_direct_api_retry(c, outcome) ==
  LET d == [c EXCEPT !.attempts = @ + 1, !.fallback = outcome] IN
  IF outcome = "200" THEN Returned(d, "url")
  ELSE IF outcome = "other" /\ d.attempts < 3 THEN d
  ELSE Returned(d, "None")

(* requests.post in the inner except: status 200 gives the URL, any other  *)
(* status None; an exception it raises is caught by the outer handler,     *)
(* which returns None.                                                     *)
upload_file_direct_api(c, outcome) ==
  LET d == [c EXCEPT !.attempts = @ + 1, !.fallback = outcome] IN
  IF outcome = "200" THEN Returned(d, "url") ELSE Returned(d, "None")

(* ------------------------------ register ------------------------------ *)
register_begin(d, q, pwlen) ==
  IF q.user # 0 THEN Step(d, Respond(q, "redirect"))
  ELSE IF q.username = "" \/ q.email = "" \/ pwlen = 0 THEN Step(d, Respond(q, "fields_required"))
  ELSE IF pwlen < MinPasswordLen THEN Step(d, Respond(q, "password_short"))
  ELSE IF \E u \in d.users : u.username = q.username
    THEN Step(d, Respond(q, "username_taken"))
  ELSE Step(d, Goto(q, "check_email"))

(* Mutant: the email is not looked up. *)
register_check_email_skipped(d, q) == Step(d, Goto(q, "insert_user"))

register_check_email(d, q) ==
  IF \E u \in d.users : u.email = q.email
    THEN Step(d, Respond(q, "email_taken"))
    ELSE Step(d, Goto(q, "insert_user"))

(* db.session.add(user); commit.  username and email are unique columns: *)
(* the insert of a duplicate raises IntegrityError and the request ends   *)
(* with the server error.                                                 *)
register_insert_user(d, q) ==
  IF \E u \in d.users : u.username = q.username \/ u.email = q.email
    THEN Step(d, Respond(q, "500"))
    ELSE LET id == NextId(d.users) IN
         Step([d EXCEPT !.users = @ \cup {[id |-> id, username |-> q.username, email |-> q.email]}],
              [Goto(q, "insert_collection") EXCEPT !.user = id])

register_insert_collection(d, q) ==
  Step([d EXCEPT !.collections =
          @ \cup {[id |-> NextId(d.collections), name |-> "Saved", user_id |-> q.user]}],
       Respond(q, "registered"))

(* ------------------------------- upload ------------------------------- *)
(* CloudinaryStorage.__init__: configured when all three credentials are   *)
(* set (each argument: the environment variable is set and not empty).     *)
CloudinaryStorage_init(cloud_name, api_key, api_secret) ==
  cloud_name /\ api_key /\ api_secret

(* CloudinaryStorage.upload_file.  result is what cloudinary.uploader      *)
(* answers: the resource_type of the stored file, or "fail" when the call  *)
(* raises.  calls counts the calls made to the provider.                   *)
CloudinaryStorage_upload_file(configured, result) ==
  IF ~configured THEN [file_url |-> "None", file_type |-> "None", calls |-> 0]
  ELSE IF result = "fail" THEN [file_url |-> "None", file_type |-> "None", calls |-> 1]
  ELSE [file_url |-> "secure_url",
        file_type |-> IF result = "image" THEN "image" ELSE "video", calls |-> 1]

(* Mutant: the route does not look at UPLOADS_ENABLED. *)
upload_no_config_check(d, q, configured, filename, result) ==
  IF filename = <<>> THEN Step(d, Respond(q, "no_file"))
  ELSE IF ~is_allowed_file(filename) THEN Step(d, Respond(q, "not_allowed"))
  ELSE LET up == CloudinaryStorage_upload_file(configured, result) IN
       IF up.file_url = "None" THEN Step(d, Respond(q, "upload_failed"))
       ELSE Step([d EXCEPT !.posts = @ \cup {[id |-> NextId(d.posts), user_id |-> q.user,
                                              file_type |-> up.file_type]}],
                 [Respond(q, "uploaded") EXCEPT !.post_id = NextId(d.posts)])

upload(d, q, configured, filename, result) ==
  IF ~configured THEN Step(d, Respond(q, "uploads_disabled"))
  ELSE IF filename = <<>> THEN Step(d, Respond(q, "no_file"))
  ELSE IF ~is_allowed_file(filename) THEN Step(d, Respond(q, "not_allowed"))
  ELSE LET up == CloudinaryStorage_upload_file(configured, result) IN
       IF up.file_url = "None" THEN Step(d, Respond(q, "upload_failed"))
       ELSE LET id == NextId(d.posts) IN
            Step([d EXCEPT !.posts = @ \cup
                    {[id |-> id, user_id |-> q.user, file_type |-> up.file_type]}],
                 [Respond(q, "uploaded") EXCEPT !.post_id = id])

(* ------------------------------ save_post ----------------------------- *)
(* Mutant: the lookup compares the name with the wrong case. *)
DefaultCollectionsWrongName(d, u) == {c \in d.collections : c.user_id = u /\ c.name = "saved"}

(* Collection.query.filter_by(user_id, name="Saved") *)
DefaultCollections(d, u) == {c \in d.collections : c.user_id = u /\ c.name = "Saved"}

ExistingSaves(d, p, c) == {s \in d.saves : s.post_id = p /\ s.collection_id = c}

(* Mutant: the duplicate check is left out. *)
save_post_check_no_duplicate_check(d, q) ==
  LET collection == GetRow(d.collections, q.collection_id) IN
  IF collection.id = 0 THEN Step(d, Respond(q, "404"))
  ELSE IF collection.user_id # q.user THEN Step(d, Respond(q, "403"))
  ELSE Step(d, Goto(q, "insert_save"))

(* Mutant: the duplicate check is made before the ownership check. *)
save_post_check_duplicate_first(d, q) ==
  LET collection == GetRow(d.collections, q.collection_id) IN
  IF collection.id = 0 THEN Step(d, Respond(q, "404"))
  ELSE IF {s \in d.saves : s.post_id = q.post_id /\ s.collection_id = q.collection_id} # {}
    THEN Step(d, Respond(q, "400"))
  ELSE IF collection.user_id # q.user THEN Step(d, Respond(q, "403"))
  ELSE Step(d, Goto(q, "insert_save"))

(* The ownership check and the duplicate check of the target collection. *)
save_post_check(d, q) ==
  LET collection == GetRow(d.collections, q.collection_id) IN
  IF collection.id = 0 THEN Step(d, Respond(q, "404"))
  ELSE IF collection.user_id # q.user THEN Step(d, Respond(q, "403"))
  ELSE IF ExistingSaves(d, q.post_id, q.collection_id) # {} THEN Step(d, Respond(q, "400"))
  ELSE Step(d, Goto(q, "insert_save"))

(* The handler up to its first write.  Posts and collections are never    *)
(* updated or deleted, so the queries that find one are taken together    *)
(* with the query that follows them; .first() is the row of least id.     *)
save_post_begin(d, q) ==
  IF q.post_id \notin Ids(d.posts) THEN Step(d, Respond(q, "404"))
  ELSE IF q.arg = 0
    THEN LET found == DefaultCollections(d, q.user) IN
         IF found = {} THEN Step(d, Goto(q, "default_insert"))
         ELSE save_post_check(d, [q EXCEPT !.collection_id = SetMin(Ids(found))])
    ELSE save_post_check(d, [q EXCEPT !.collection_id = q.arg])

save_post_default_insert(d, q) ==
  LET id == NextId(d.collections) IN
  Step([d EXCEPT !.collections = @ \cup {[id |-> id, name |-> "Saved", user_id |-> q.user]}],
       [Goto(q, "check") EXCEPT !.collection_id = id])

save_post_insert_save(d, q) ==
  Step([d EXCEPT !.saves = @ \cup {[id |-> NextId(d.saves), post_id |-> q.post_id,
                                    collection_id |-> q.collection_id]}],
       Respond(q, "200"))

(* ----------------------------- unsave_post ---------------------------- *)
OwnedIds(d, u) == {c.id : c \in {x \in d.collections : x.user_id = u}}

(* Mutant: only the Saves in the user's first "Saved" collection. *)
UserSavesDefaultOnly(d, u, p) ==
  {s \in d.saves : /\ s.post_id = p
                   /\ DefaultCollections(d, u) # {}
                   /\ s.collection_id = SetMin(Ids(DefaultCollections(d, u)))}

UserSaves(d, u, p) == {s \in d.saves : s.post_id = p /\ s.collection_id \in OwnedIds(d, u)}

(* Mutant: a collection_id that is given and owned is not used to select. *)
unsave_post_begin_any_collection(d, q) ==
  LET collection == GetRow(d.collections, q.arg)
      found == UserSaves(d, q.user, q.post_id) IN
  IF q.arg # 0 /\ collection.id = 0 THEN Step(d, Respond(q, "404"))
  ELSE IF q.arg # 0 /\ collection.user_id # q.user THEN Step(d, Respond(q, "403"))
  ELSE IF found = {} THEN Step(d, Respond(q, "404"))
  ELSE Step(d, [Goto(q, "delete_saves") EXCEPT !.collection_id = q.arg, !.saves = found])

(* Mutant: an empty selection is not answered with 404. *)
unsave_post_begin_no_404(d, q) ==
  IF q.arg = 0
    THEN Step(d, [Goto(q, "delete_saves") EXCEPT !.saves = UserSaves(d, q.user, q.post_id)])
    ELSE LET collection == GetRow(d.collections, q.arg) IN
         IF collection.id = 0 THEN Step(d, Respond(q, "404"))
         ELSE IF collection.user_id # q.user THEN Step(d, Respond(q, "403"))
         ELSE Step(d, [Goto(q, "delete_saves") EXCEPT
                         !.collection_id = q.arg,
                         !.saves = {s \in d.saves : s.post_id = q.post_id /\ s.collection_id = q.arg}])

(* The handler up to its delete: the query that selects the rows. *)
unsave_post_begin(d, q) ==
  IF q.arg = 0
    THEN LET found == UserSaves(d, q.user, q.post_id) IN
         IF found = {} THEN Step(d, Respond(q, "404"))
         ELSE Step(d, [Goto(q, "delete_saves") EXCEPT !.saves = found])
    ELSE LET collection == GetRow(d.collections, q.arg)
             found == ExistingSaves(d, q.post_id, q.arg) IN
         IF collection.id = 0 THEN Step(d, Respond(q, "404"))
         ELSE IF collection.user_id # q.user THEN Step(d, Respond(q, "403"))
         ELSE IF found = {} THEN Step(d, Respond(q, "404"))
         ELSE Step(d, [Goto(q, "delete_saves") EXCEPT !.collection_id = q.arg,
                                                      !.saves = found])

(* session.delete of each row found, then commit: DELETE ... WHERE id = ? *)
unsave_post_delete_saves(d, q) ==
  Step([d EXCEPT !.saves = {s \in @ : s.id \notin Ids(q.saves)}], Respond(q, "200"))

(* ------------------------------ get_post ------------------------------ *)
(* Mutant: a Save of the post in any collection sets the flag. *)
get_post_saved_any_owner(d, u, p) == u # 0 /\ \E s \in d.saves : s.post_id = p

(* The saved flag: false for a client that is not logged in (user 0),      *)
(* else whether a Save of the post has its collection_id among the ids of  *)
(* current_user.collections.                                               *)
get_post_saved(d, u, p) ==
  /\ u # 0
  /\ \E s \in d.saves : s.post_id = p /\ s.collection_id \in OwnedIds(d, u)

(* Save.query.filter_by(post_id=post_id).count() *)
get_post_save_count(d, p) == Cardinality({s \in d.saves : s.post_id = p})

(* The handler reads and answers; the answer is recorded by its flag. *)
get_post(d, q) ==
  IF q.post_id \notin Ids(d.posts) THEN Step(d, Respond(q, "404"))
  ELSE IF get_post_saved(d, q.user, q.post_id) THEN Step(d, Respond(q, "saved"))
  ELSE Step(d, Respond(q, "not_saved"))

(* ----------------------- a handler run in one go ---------------------- *)
HandlerStep(d, q) ==
  CASE q.pc = "check_email" -> register_check_email(d, q)
    [] q.pc = "insert_user" -> register_insert_user(d, q)
    [] q.pc = "insert_collection" -> register_insert_collection(d, q)
    [] q.pc = "default_insert" -> save_post_default_insert(d, q)
    [] q.pc = "check" -> save_post_check(d, q)
    [] q.pc = "insert_save" -> save_post_insert_save(d, q)
    [] q.pc = "delete_saves" -> unsave_post_delete_saves(d, q)
    [] OTHER -> Step(d, q)

RECURSIVE Run(_)
Run(s) == IF s.req.pc = "done" THEN s ELSE Run(HandlerStep(s.db, s.req))

RunRegister(d, username, email, pwlen) ==
  Run(register_begin(d, [Blank EXCEPT !.kind = "register", !.username = username,
                                      !.email = email], pwlen))

RunSavePost(d, u, p, c) ==
  Run(save_post_begin(d, [Blank EXCEPT !.kind = "save_post", !.user = u,
                                       !.post_id = p, !.arg = c]))

RunUnsavePost(d, u, p, c) ==
  Run(unsave_post_begin(d, [Blank EXCEPT !.kind = "unsave_post", !.user = u,
                                         !.post_id = p, !.arg = c]))

(* ------------------------------ the system ---------------------------- *)
(* req: the requests in flight.  last: the response of the request that   *)
(* ended last, on record while no request is in flight (the response as   *)
(* a client sees it whose request ran alone to its end).                  *)
Init ==
  /\ users = {}
  /\ posts = {}
  /\ collections = {}
  /\ saves = {}
  /\ \E cloud_name \in BOOLEAN, api_key \in BOOLEAN, api_secret \in BOOLEAN :
       is_configured = CloudinaryStorage_init(cloud_name, api_key, api_secret)
  /\ req = [r \in Req |-> Blank]
  /\ last = Blank
  /\ call = NoCall

InFlight(r) == req[r].pc # "idle"
Quiet == \A r \in Req : ~InFlight(r)
(* A new request is served by the first worker that is free. *)
Free(r) == ~InFlight(r) /\ \A q \in Req : q < r => InFlight(q)

(* The step s of request r is committed. *)
Commit(r, s) ==
  /\ users' = s.db.users
  /\ posts' = s.db.posts
  /\ collections' = s.db.collections
  /\ saves' = s.db.saves
  /\ req' = [req EXCEPT ![r] = IF s.req.pc = "done" THEN Blank ELSE s.req]
  /\ last' = IF s.req.pc = "done" /\ \A q \in Req \ {r} : ~InFlight(q) THEN s.req ELSE Blank
  /\ UNCHANGED <<is_configured, call>>

(* login_required: the session's user is a committed User row. *)
LoggedIn == Ids(users)

PostArgs == 1..MaxPosts
CollectionArgs == {0} \cup Ids(collections) \cup {NextId(collections)}

(* register, by a client that is not logged in *)
Register(r) ==
  /\ Free(r)
  /\ \E username \in Usernames \cup {""}, email \in Emails,
        pwlen \in {MinPasswordLen - 1, MinPasswordLen} :
       Commit(r, register_begin(DB, [Blank EXCEPT !.kind = "register",
                                       !.username = username, !.email = email], pwlen))

RegisterCheckEmail(r) ==
  /\ req[r].pc = "check_email"
  /\ Commit(r, register_check_email(DB, req[r]))

RegisterInsertUser(r) ==
  /\ req[r].pc = "insert_user"
  /\ Commit(r, register_insert_user(DB, req[r]))

RegisterInsertCollection(r) ==
  /\ req[r].pc = "insert_collection"
  /\ Commit(r, register_insert_collection(DB, req[r]))

Upload(r) ==
  /\ Free(r)
  /\ Cardinality(posts) < MaxPosts
  /\ \E u \in LoggedIn, filename \in UploadNames, result \in UploadResults :
       Commit(r, upload(DB, [Blank EXCEPT !.kind = "upload", !.user = u],
                        is_configured, filename, result))

(* Every save_post in flight may still insert one Save row. *)
SaveIdsLeft ==
  NextId(saves) + Cardinality({q \in Req : req[q].kind = "save_post"}) <= MaxSaveId

SavePost(r) ==
  /\ Free(r)
  /\ SaveIdsLeft
  /\ \E u \in LoggedIn, p \in PostArgs, c \in CollectionArgs :
       Commit(r, save_post_begin(DB, [Blank EXCEPT !.kind = "save_post", !.user = u,
                                        !.post_id = p, !.arg = c]))

SavePostDefaultInsert(r) ==
  /\ req[r].pc = "default_insert"
  /\ Commit(r, save_post_default_insert(DB, req[r]))

SavePostCheck(r) ==
  /\ req[r].pc = "check"
  /\ Commit(r, save_post_check(DB, req[r]))

SavePostInsertSave(r) ==
  /\ req[r].pc = "insert_save"
  /\ Commit(r, save_post_insert_save(DB, req[r]))

UnsavePost(r) ==
  /\ Free(r)
  /\ \E u \in LoggedIn, p \in PostArgs, c \in CollectionArgs :
       Commit(r, unsave_post_begin(DB, [Blank EXCEPT !.kind = "unsave_post", !.user = u,
                                          !.post_id = p, !.arg = c]))

UnsavePostDeleteSaves(r) ==
  /\ req[r].pc = "delete_saves"
  /\ Commit(r, unsave_post_delete_saves(DB, req[r]))

(* get_post, by any client: logged in, or not (user 0) *)
GetPost(r) ==
  /\ Free(r)
  /\ \E u \in LoggedIn \cup {0}, p \in PostArgs :
       Commit(r, get_post(DB, [Blank EXCEPT !.kind = "get_post", !.user = u, !.post_id = p]))

(* The request stops part-way (the worker dies, the connection drops):    *)
(* what it has committed stays, the rest never happens.                   *)
Abort(r) ==
  /\ InFlight(r)
  /\ req' = [req EXCEPT ![r] = Blank]
  /\ last' = Blank
  /\ UNCHANGED <<users, posts, collections, saves, is_configured, call>>

(* The steps of a request in flight. *)
Continue(r) ==
  \/ RegisterCheckEmail(r)
  \/ RegisterInsertUser(r)
  \/ RegisterInsertCollection(r)
  \/ SavePostDefaultInsert(r)
  \/ SavePostCheck(r)
  \/ SavePostInsertSave(r)
  \/ UnsavePostDeleteSaves(r)
  \/ Abort(r)

(* Requests served by concurrent workers. *)
Next ==
  \E r \in Req :
    \/ Register(r)
    \/ Upload(r)
    \/ SavePost(r)
    \/ UnsavePost(r)
    \/ GetPost(r)
    \/ Continue(r)

Spec == Init /\ [][Next]_vars

(* Requests served one at a time: a request starts when none is in flight. *)
SeqNext ==
  \E r \in Req :
    \/ Quiet /\ Register(r)
    \/ Quiet /\ Upload(r)
    \/ Quiet /\ SavePost(r)
    \/ Quiet /\ UnsavePost(r)
    \/ Quiet /\ GetPost(r)
    \/ Continue(r)

SeqSpec == Init /\ [][SeqNext]_vars

(* ------------------- the storage functions, called -------------------- *)
RECURSIVE Strings(_)
Strings(n) ==
  IF n = 0 THEN {<<>>}
  ELSE Strings(n - 1) \cup {Append(t, ch) : t \in Strings(n - 1), ch \in NameChars}

Filenames == Strings(MaxNameLen) \cup NamedFiles

Untouched == UNCHANGED <<users, posts, collections, saves, is_configured, req, last>>

IsAllowedFile ==
  /\ call.pc = "idle"
  /\ \E f \in Filenames : call' = Called("is_allowed_file", f, BoolStr(is_allowed_file(f)))
  /\ Untouched

AllowedFile ==
  /\ call.pc = "idle"
  /\ \E f \in Filenames : call' = Called("allowed_file", f, BoolStr(allowed_file(f)))
  /\ Untouched

GetFileType ==
  /\ call.pc = "idle"
  /\ \E f \in Filenames : call' = Called("get_file_type", f, get_file_type(f))
  /\ Untouched

FilesystemGetFileType ==
  /\ call.pc = "idle"
  /\ \E f \in Filenames :
       call' = Called("filesystem_get_file_type", f, filesystem_get_file_type(f))
  /\ Untouched

UploadFile ==
  /\ call.pc = "idle"
  /\ \E supabase \in BOOLEAN, sized \in BOOLEAN :
       call' = SupabaseClient_upload_file(supabase, sized)
  /\ Untouched

UploadFilePythonClient ==
  /\ call.pc = "python_client"
  /\ \E outcome \in ClientOutcomes : call' = upload_file_python_client(call, outcome)
  /\ Untouched

UploadFileDirectApi ==
  /\ call.pc = "direct_api"
  /\ \E outcome \in DirectApiOutcomes : call' = upload_file_direct_api(call, outcome)
  /\ Untouched

(* The caller has the value (or the exception); the next call can start. *)
CallEnds ==
  /\ call.pc \in {"returned", "raised"}
  /\ call' = NoCall
  /\ Untouched

StorageNext ==
  \/ IsAllowedFile
  \/ AllowedFile
  \/ GetFileType
  \/ FilesystemGetFileType
  \/ UploadFile
  \/ UploadFilePythonClient
  \/ UploadFileDirectApi
  \/ CallEnds

(* A transport attempt that has started comes back: it returns or raises. *)
StorageSpec ==
  /\ Init
  /\ [][StorageNext]_vars
  /\ WF_vars(UploadFilePythonClient)
  /\ WF_vars(UploadFileDirectApi)

(* ============================== properties ============================ *)
(* What the properties say of a database, stated on the tables. *)
SavedCollectionsOf(colls, u) == {c \in colls : c.user_id = u /\ c.name = "Saved"}
OwnerOf(colls, c) == (CHOOSE x \in colls : x.id = c).user_id
SavesOfPost(svs, p) == {s \in svs : s.post_id = p}
SavesOfPair(svs, p, c) == {s \in svs : s.post_id = p /\ s.collection_id = c}
SavesOfUser(svs, colls, u, p) ==
  {s \in svs : s.post_id = p /\ \E c \in colls : c.id = s.collection_id /\ c.user_id = u}
SameButSaves(d, e) ==
  /\ d.users = e.users
  /\ d.posts = e.posts
  /\ d.collections = e.collections

(* C1: no two Save records have the same (post_id, collection_id) pair,    *)
(* in every state reached by interleaved save_post and unsave_post         *)
(* requests.                                                               *)
C1_NoDuplicateSave ==
  \A s \in saves, t \in saves :
    (s.post_id = t.post_id /\ s.collection_id = t.collection_id) => s = t

(* C2: no user has two collections named "Saved", also when requests of    *)
(* that user reach the default-collection bootstrap concurrently.          *)
C2_OneSavedPerUser ==
  \A u \in Ids(users) : Cardinality(SavedCollectionsOf(collections, u)) <= 1

(* C3: every request commits all of its writes in one step: no committed   *)
(* state holds a User without the "Saved" collection of its registration,  *)
(* nor a default collection committed by a save_post that has not yet      *)
(* inserted its Save.                                                      *)
C3_AtomicRequests ==
  /\ \A u \in Ids(users) : SavedCollectionsOf(collections, u) # {}
  /\ \A r \in Req : ~(req[r].kind = "save_post" /\ req[r].pc = "check")

(* C4: with requests served one at a time, no user ever has two            *)
(* collections named "Saved", and once a save_post without collection_id   *)
(* is past the bootstrap (in flight behind it, or answered 200 or 400)     *)
(* its user has exactly one.                                               *)
C4_OneSavedAfterBootstrap ==
  /\ \A u \in Ids(users) : Cardinality(SavedCollectionsOf(collections, u)) <= 1
  /\ \A r \in Req :
       (req[r].kind = "save_post" /\ req[r].arg = 0 /\ req[r].pc \in {"check", "insert_save"})
         => Cardinality(SavedCollectionsOf(collections, req[r].user)) = 1
  /\ (last.kind = "save_post" /\ last.arg = 0 /\ last.resp \in {"200", "400"})
       => Cardinality(SavedCollectionsOf(collections, last.user)) = 1

(* A save_post without collection_id was answered 200 by a user who had    *)
(* registered: the collection of the registration was used again.          *)
C4_Witness ==
  /\ last.kind = "save_post" /\ last.arg = 0 /\ last.resp = "200"
  /\ Cardinality(SavedCollectionsOf(collections, last.user)) = 1
  /\ \E s \in saves : s.collection_id = last.collection_id

(* C5: when save_post(U, P) without collection_id succeeds and the same    *)
(* request follows at once, the second is answered 400 and inserts         *)
(* nothing: P has exactly one Save more than before the first.             *)
C5_SecondSaveConflicts ==
  \A u \in Ids(users), p \in Ids(posts) :
    LET a == RunSavePost(DB, u, p, 0) IN
    a.req.resp = "200" =>
      LET b == RunSavePost(a.db, u, p, 0) IN
      /\ b.req.resp = "400"
      /\ b.db = a.db
      /\ Cardinality(SavesOfPost(a.db.saves, p)) = Cardinality(SavesOfPost(saves, p)) + 1

(* The second of two equal save_post requests has been answered 400. *)
C5_Witness ==
  /\ last.kind = "save_post" /\ last.arg = 0 /\ last.resp = "400"
  /\ Cardinality(SavesOfPost(saves, last.post_id)) = 1

(* C6: unsave_post(U, P) without collection_id, when a Save of P exists    *)
(* in a collection of U, is answered 200 and removes exactly the Saves of  *)
(* P in all collections of U; none of them remains.                        *)
C6_UnsaveEverywhere ==
  \A u \in Ids(users), p \in PostArgs :
    LET a == RunUnsavePost(DB, u, p, 0)
        mine == SavesOfUser(saves, collections, u, p) IN
    mine # {} =>
      /\ a.req.resp = "200"
      /\ a.db.saves = saves \ mine
      /\ SavesOfUser(a.db.saves, a.db.collections, u, p) = {}
      /\ SameButSaves(a.db, DB)

(* One unsave_post without collection_id has removed Saves of the post     *)
(* from two collections of its user.                                       *)
C6_Witness ==
  /\ last.kind = "unsave_post" /\ last.arg = 0 /\ last.resp = "200"
  /\ \E s \in last.saves, t \in last.saves : s.collection_id # t.collection_id
  /\ SavesOfUser(saves, collections, last.user, last.post_id) = {}

C8_UnsaveNotFound ==
  \A u \in Ids(users), p \in PostArgs, c \in CollectionArgs :
    LET a == RunUnsavePost(DB, u, p, c) IN
    /\ c = 0 => (a.req.resp = "404" <=> SavesOfUser(saves, collections, u, p) = {})
    /\ (c \in Ids(collections) /\ OwnerOf(collections, c) = u)
         => (a.req.resp = "404" <=> SavesOfPair(saves, p, c) = {})
    /\ (c # 0 /\ a.req.resp = "404") => SavesOfPair(saves, p, c) = {}
    /\ a.req.resp = "404" => a.db = DB

(* An unsave_post with a collection_id of its own user was answered 404    *)
(* while Save records of other pairs exist.                                *)
C8_Witness ==
  /\ last.kind = "unsave_post" /\ last.resp = "404"
  /\ last.arg \in Ids(collections) /\ OwnerOf(collections, last.arg) = last.user
  /\ saves # {}

(* C9: save_post(U, P, collection_id = C) for an existing post is answered *)
(* 404 when no collection C exists and 403 when C is owned by another      *)
(* user, also when a Save (P, C) exists; nothing is written in either      *)
(* case.                                                                   *)
C9_SaveChecksCollection ==
  \A u \in Ids(users), p \in Ids(posts), c \in CollectionArgs \ {0} :
    LET a == RunSavePost(DB, u, p, c) IN
    /\ c \notin Ids(collections) => (a.req.resp = "404" /\ a.db = DB)
    /\ (c \in Ids(collections) /\ OwnerOf(collections, c) # u)
         => (a.req.resp = "403" /\ a.db = DB)

(* A save_post into another user's collection that already holds the post  *)
(* was answered 403.                                                        *)
C9_Witness ==
  /\ last.kind = "save_post" /\ last.arg # 0 /\ last.resp = "403"
  /\ SavesOfPair(saves, last.post_id, last.arg) # {}

(* C10: a registration with a username or an email of an existing User is  *)
(* answered with the conflict message and leaves the database unchanged;   *)
(* no two Users share a username or an email.                              *)
C10_RegisterConflict ==
  /\ \A username \in Usernames, email \in Emails :
       LET a == RunRegister(DB, username, email, MinPasswordLen) IN
       (\E u \in users : u.username = username \/ u.email = email)
         => (a.req.resp \in {"username_taken", "email_taken"} /\ a.db = DB)
  /\ \A u \in users, v \in users :
       (u.username = v.username \/ u.email = v.email) => u = v

(* A registration with a new username and a used email was answered       *)
(* "Email already registered".                                             *)
C10_Witness ==
  /\ last.kind = "register" /\ last.resp = "email_taken"
  /\ \E u \in users : u.email = last.email /\ u.username # last.username

(* C11: the saved flag of get_post for a logged-in user U and a post P is  *)
(* true exactly when a Save of P exists in a collection owned by U, in any *)
(* of U's collections; Saves of P in collections of other users do not     *)
(* make it true.                                                           *)
C11_SavedFlag ==
  \A u \in Ids(users), p \in Ids(posts) :
    LET a == get_post(DB, [Blank EXCEPT !.kind = "get_post", !.user = u, !.post_id = p]) IN
    /\ a.req.resp \in {"saved", "not_saved"}
    /\ a.req.resp = "saved" <=> SavesOfUser(saves, collections, u, p) # {}
    /\ a.db = DB

(* get_post has answered a user that the post is not saved while a Save of *)
(* the post exists in a collection of another user.                        *)
C11_Witness ==
  /\ last.kind = "get_post" /\ last.user # 0 /\ last.resp = "not_saved"
  /\ SavesOfPost(saves, last.post_id) # {}

(* get_post has answered a user that the post is saved while the Saves of  *)
(* the post are in a collection of the user that is not its first one.     *)
C11_SavedInSecondCollection ==
  /\ last.kind = "get_post" /\ last.resp = "saved"
  /\ \A s \in SavesOfUser(saves, collections, last.user, last.post_id) :
       \E c \in collections : c.user_id = last.user /\ c.id < s.collection_id

(* C12: while a credential of the storage backend is missing the backend   *)
(* is not configured, upload_file returns (None, None) without a call to   *)
(* the provider, every upload request is answered with the                 *)
(* uploads-disabled page and changes nothing, and no Post row exists.      *)
C12_UnconfiguredUploads ==
  /\ \A n \in BOOLEAN, k \in BOOLEAN, s \in BOOLEAN :
       ~(n /\ k /\ s) => ~CloudinaryStorage_init(n, k, s)
  /\ ~is_configured =>
       /\ posts = {}
       /\ \A result \in UploadResults :
            CloudinaryStorage_upload_file(is_configured, result)
              = [file_url |-> "None", file_type |-> "None", calls |-> 0]
       /\ \A u \in Ids(users), filename \in UploadNames, result \in UploadResults :
            LET a == upload(DB, [Blank EXCEPT !.kind = "upload", !.user = u],
                            is_configured, filename, result) IN
            a.req.resp = "uploads_disabled" /\ a.db = DB

(* An upload request was answered with the uploads-disabled page by a      *)
(* backend that is not configured.                                         *)
C12_Witness ==
  /\ ~is_configured
  /\ last.kind = "upload" /\ last.resp = "uploads_disabled"
  /\ posts = {}

(* What the properties say of a filename: its last '.' is at k and what    *)
(* follows, read without regard to case, is the extension e.               *)
HasExtension(f, e) ==
  \E k \in 1..Len(f) :
    /\ f[k] = "."
    /\ \A i \in (k + 1)..Len(f) : f[i] # "."
    /\ Len(f) - k = Len(e)
    /\ \A i \in 1..Len(e) : Lower(f[k + i]) = e[i]
ImageExtensions == {<<"j", "p", "g">>, <<"j", "p", "e", "g">>, <<"p", "n", "g">>, <<"g", "i", "f">>}
VideoExtensions == {<<"m", "p", "4">>, <<"m", "o", "v">>, <<"w", "e", "b", "m">>}
IsImageName(f) == \E e \in ImageExtensions : HasExtension(f, e)
IsVideoName(f) == \E e \in VideoExtensions : HasExtension(f, e)

(* C13: is_allowed_file and allowed_file return true exactly for a         *)
(* filename that has a '.' and whose text after the last '.', without      *)
(* regard to case, is one of jpg, jpeg, png, gif, mp4, mov, webm; the two  *)
(* functions agree on every filename.                                      *)
C13_AllowedFile ==
  /\ (call.fn \in {"is_allowed_file", "allowed_file"})
       => /\ call.pc = "returned"
          /\ call.value = BoolStr(IsImageName(call.filename) \/ IsVideoName(call.filename))
  /\ is_allowed_file(call.filename) = allowed_file(call.filename)

(* is_allowed_file("a.JPG") has returned True. *)
C13_Witness ==
  /\ call.fn = "is_allowed_file" /\ call.pc = "returned"
  /\ call.filename = <<"a", ".", "J", "P", "G">>
  /\ call.value = "True"

(* allowed_file("a.exe") has returned False. *)
C13_ExeRefused ==
  /\ call.fn = "allowed_file" /\ call.pc = "returned"
  /\ call.filename = <<"a", ".", "e", "x", "e">>
  /\ call.value = "False"

(* C14: get_file_type returns a value for every filename and does not      *)
(* raise: image for the extensions jpg, jpeg, png, gif, video for mp4,     *)
(* mov, webm, and None for every other filename, one without a '.'         *)
(* included.                                                               *)
C14_GetFileType ==
  (call.fn \in {"get_file_type", "filesystem_get_file_type"})
    => /\ call.pc = "returned"
       /\ call.value = IF IsImageName(call.filename) THEN "image"
                       ELSE IF IsVideoName(call.filename) THEN "video" ELSE "None"

(* What holds of get_file_type: the claim's classification for every       *)
(* filename that has a '.', and IndexError for every filename without.     *)
C14_GetFileTypeWithDot ==
  (call.fn \in {"get_file_type", "filesystem_get_file_type"})
    => IF \E i \in 1..Len(call.filename) : call.filename[i] = "."
         THEN /\ call.pc = "returned"
              /\ call.value = IF IsImageName(call.filename) THEN "image"
                              ELSE IF IsVideoName(call.filename) THEN "video" ELSE "None"
         ELSE call.pc = "raised" /\ call.value = "IndexError"

(* get_file_type has raised IndexError for a filename without a '.'. *)
C14_Witness ==
  /\ call.fn = "get_file_type" /\ call.pc = "raised"
  /\ call.filename = <<"R", "E", "A", "D", "M", "E">>

(* What C15 says of the state of an upload_file call. *)
C15_Attempts ==
  (call.fn = "upload_file") =>
    /\ call.pc # "raised"
    /\ call.attempts <= 2
    /\ call.attempts = (IF call.client = "none" THEN 0 ELSE 1)
                        + (IF call.fallback = "none" THEN 0 ELSE 1)
    /\ call.fallback # "none" => call.client = "raise"
    /\ call.pc = "direct_api" => (call.client = "raise" /\ call.fallback = "none")
    /\ call.pc = "returned" =>
         /\ call.client = "raise" => call.fallback # "none"
         /\ call.value = (IF call.client = "ok" \/ call.fallback = "200" THEN "url" ELSE "None")

SavesIn(svs, colls, v) ==
  {s \in svs : \E c \in colls : c.id = s.collection_id /\ c.user_id = v}
CollectionsOf(colls, v) == {c \in colls : c.user_id = v}

(* C16: no step of a save_post or unsave_post request of a user U changes  *)
(* the Saves in the collections of another user V, or V's collections: it  *)
(* inserts no Save there, deletes none, and creates no collection of V.    *)
C16_OwnershipIsolation ==
  [][\A r \in Req :
       LET acts == /\ req'[r] # req[r]
                   /\ \/ req[r].kind \in {"save_post", "unsave_post"}
                      \/ req[r].kind = "none" /\ req'[r].kind \in {"save_post", "unsave_post"}
           u == IF req[r].kind = "none" THEN req'[r].user ELSE req[r].user
       IN acts => \A v \in Ids(users) \ {u} :
                    /\ SavesIn(saves', collections', v) = SavesIn(saves, collections, v)
                    /\ CollectionsOf(collections', v) = CollectionsOf(collections, v)]_vars

SavePostErrors == {"404", "403", "400"}

(* What holds of save_post served with no other request in between: an     *)
(* error answer leaves the tables as they were, and a nonexistent post is  *)
(* answered 404 before the bootstrap.                                      *)
C17_ErrorsWriteNothingAlone ==
  \A u \in Ids(users), p \in PostArgs, c \in CollectionArgs :
    LET a == RunSavePost(DB, u, p, c) IN
    /\ a.req.resp \in SavePostErrors => a.db = DB
    /\ p \notin Ids(posts) => a.req.resp = "404"

(* C17: every save_post request that is answered with an error (404, 403,  *)
(* 400) has written nothing to the Collection and Save tables: served      *)
(* alone it leaves them as they were, a nonexistent post is answered 404   *)
(* before the bootstrap, and a request that has committed its default      *)
(* collection is not answered with an error.                               *)
C17_ErrorsWriteNothing ==
  /\ C17_ErrorsWriteNothingAlone
  /\ \A r \in Req :
       (req[r].kind = "save_post" /\ req[r].pc = "check")
         => save_post_check(DB, req[r]).req.resp \notin SavePostErrors

(* A save_post without collection_id for a post that does not exist was    *)
(* answered 404 and its user, who had no "Saved" collection, has none.     *)
C17_MissingPostWitness ==
  /\ last.kind = "save_post" /\ last.arg = 0 /\ last.resp = "404"
  /\ last.post_id \notin Ids(posts)
  /\ SavedCollectionsOf(collections, last.user) = {}

====
